---------------------------- MODULE Spec2Model ----------------------------
(***************************************************************************)
(* FolderKeywordRename: one invocation of the command-line tool.           *)
(*                                                                         *)
(* main() parses argv into a Config, lists the working directory, keeps    *)
(* the directories whose name contains the keyword (case-insensitively),   *)
(* renames the single match to newName and optionally runs a follow-up     *)
(* command.                                                                *)
(*                                                                         *)
(* Strings are sequences of characters; a character is a one-entry string  *)
(* ("a", "-") or the name of a single non-ASCII byte ("xC9", "xE9": the    *)
(* ISO-8859-1 codes of capital and small e-acute).                         *)
(***************************************************************************)
EXTENDS Integers, Sequences, FiniteSets, TLC

VARIABLES
    pc,             \* position of main: "start", "scan", "decide", "renamed", "exit"
    locale,         \* the C locale installed by setConsoleEncoding
    argc,           \* argc of the invocation (argv[0] included)
    arg,            \* parseArguments' local `arg`: the last token examined as an option
    argIndex,       \* the index i at which `arg` was read (0: the loop never ran)
    parsed,         \* the value parseArguments returned
    usageShown,     \* showHelp() was called
    config,         \* the Config of main
    entries,        \* the working directory: entry name -> "dir" | "file"
    entries0,       \* the working directory when the process started
    listed,         \* the directory listing of line 168 completed
    matchedFolders, \* std::vector<fs::path> matchedFolders
    renames,        \* number of fs::rename calls that returned normally
    commandRuns,    \* number of std::system calls
    cmdStatus,      \* the value std::system returned (NoStatus: not called)
    outcome,        \* the diagnostic the run printed last
    exitCode        \* the value main returned (NoExit: still running)

vars == <<pc, locale, argc, arg, argIndex, parsed, usageShown, config, entries,
          entries0, listed, matchedFolders, renames, commandRuns, cmdStatus,
          outcome, exitCode>>

(***************************************************************************)
(* Bounds of the model.                                                    *)
(***************************************************************************)
\* longest argument list (without argv[0]) the parser specification draws
MaxArgs == 6
\* largest number of entries in the working directory
MaxEntries == 2

\* markers: main has not returned; std::system was not called
NoExit == 0 - 1
NoStatus == 0 - 1

(***************************************************************************)
(* Command-line tokens.                                                    *)
(***************************************************************************)
OptH == <<"-", "h">>
OptHelp == <<"-", "-", "h", "e", "l", "p">>
OptV == <<"-", "v">>
OptVerbose == <<"-", "-", "v", "e", "r", "b", "o", "s", "e">>
OptK == <<"-", "k">>
OptKeyword == <<"-", "-", "k", "e", "y", "w", "o", "r", "d">>
OptN == <<"-", "n">>
OptNewName == <<"-", "-", "n", "e", "w", "n", "a", "m", "e">>
OptC == <<"-", "c">>
OptCommand == <<"-", "-", "c", "o", "m", "m", "a", "n", "d">>

Empty == <<>>
NoArg == <<"<none>">>

IsHelpOpt(a) == a = OptH \/ a = OptHelp
IsVerboseOpt(a) == a = OptV \/ a = OptVerbose
IsKeywordOpt(a) == a = OptK \/ a = OptKeyword
IsNewNameOpt(a) == a = OptN \/ a = OptNewName
IsCommandOpt(a) == a = OptC \/ a = OptCommand

(***************************************************************************)
(* struct Config and parseArguments.                                       *)
(***************************************************************************)
DefaultConfig ==
    [keyword |-> Empty, newName |-> Empty, command |-> Empty,
     executeCommand |-> FALSE, verbose |-> FALSE]

SetVerbose(cfg) == [cfg EXCEPT !.verbose = TRUE]
SetKeyword(cfg, v) == [cfg EXCEPT !.keyword = v]
SetNewName(cfg, v) == [cfg EXCEPT !.newName = v]

SetCommand_NoFlag(cfg, v) == [cfg EXCEPT !.command = v]
SetCommand(cfg, v) == [cfg EXCEPT !.command = v, !.executeCommand = TRUE]

\* the test `i + 1 < argc` guarding argv[++i]
HasNext(i, n) == i + 1 < n

MissingOutcome_AlwaysKeyword(a) == "MissingKeyword"
\* which "missing ... parameter" diagnostic a value option without value prints
MissingOutcome(a) ==
    IF IsKeywordOpt(a) THEN "MissingKeyword"
    ELSE IF IsNewNameOpt(a) THEN "MissingNewName"
    ELSE "MissingCommand"

\* what parseArguments hands back: its return value, the Config it filled,
\* the diagnostic it printed and where its loop stood
ParseResult(ok, out, usage, cfg, a, k) ==
    [ok |-> ok, outcome |-> out, usage |-> usage, config |-> cfg,
     arg |-> a, argIndex |-> k]

\* lines 101-107: the required-fields check after the loop
RequiredCheck(cfg, a, k) ==
    IF cfg.keyword = Empty \/ cfg.newName = Empty
    THEN ParseResult(FALSE, "RequiredMissing", TRUE, cfg, a, k)
    ELSE ParseResult(TRUE, "None", FALSE, cfg, a, k)

RECURSIVE ParseLoop(_, _, _, _, _)
\* lines 60-99: the loop from index i on; a, k are the previous `arg` and its index
ParseLoop(argv, i, cfg, a, k) ==
    LET n == Len(argv) + 1 IN
    IF ~(i < n) THEN RequiredCheck(cfg, a, k)
    ELSE
      LET cur == argv[i] IN
      IF IsHelpOpt(cur) THEN ParseResult(FALSE, "HelpRequested", TRUE, cfg, cur, i)
      ELSE IF IsVerboseOpt(cur) THEN ParseLoop(argv, i + 1, SetVerbose(cfg), cur, i)
      ELSE IF IsKeywordOpt(cur) THEN
        IF HasNext(i, n) THEN ParseLoop(argv, i + 2, SetKeyword(cfg, argv[i + 1]), cur, i)
        ELSE ParseResult(FALSE, MissingOutcome(cur), FALSE, cfg, cur, i)
      ELSE IF IsNewNameOpt(cur) THEN
        IF HasNext(i, n) THEN ParseLoop(argv, i + 2, SetNewName(cfg, argv[i + 1]), cur, i)
        ELSE ParseResult(FALSE, MissingOutcome(cur), FALSE, cfg, cur, i)
      ELSE IF IsCommandOpt(cur) THEN
        IF HasNext(i, n) THEN ParseLoop(argv, i + 2, SetCommand(cfg, argv[i + 1]), cur, i)
        ELSE ParseResult(FALSE, MissingOutcome(cur), FALSE, cfg, cur, i)
      ELSE ParseResult(FALSE, "UnknownOption", FALSE, cfg, cur, i)

parseArguments(argv, cfg) == ParseLoop(argv, 1, cfg, NoArg, 0)

(***************************************************************************)
(* containsKeyword.                                                        *)
(***************************************************************************)
UpperLetters == <<"A", "B", "C", "H", "K", "N", "V">>
LowerLetters == <<"a", "b", "c", "h", "k", "n", "v">>
HighBytes == {"xC9", "xE9"}

\* the locales setConsoleEncoding can install from the environment: one that
\* leaves bytes above 0x7F alone ("C", UTF-8) and a single-byte one that
\* lowers them (ISO-8859-1, Windows-1252)
Locales == {"C", "latin1"}

\* ::tolower on one char.  The char is passed as a (possibly negative) int, so
\* for a byte above 0x7F the result is what the C library makes of it:
\* unchanged, or the locale's small letter.
tolower(c, loc) ==
    IF \E j \in 1..Len(UpperLetters) : UpperLetters[j] = c
    THEN LowerLetters[CHOOSE j \in 1..Len(UpperLetters) : UpperLetters[j] = c]
    ELSE IF c = "xC9" /\ loc = "latin1" THEN "xE9"
    ELSE c

\* std::transform(s.begin(), s.end(), s.begin(), ::tolower)
ToLowerString(s, loc) == [j \in 1..Len(s) |-> tolower(s[j], loc)]

\* s.find(t) != std::string::npos
Find(s, t) ==
    \E k \in 0..(Len(s) - Len(t)) : SubSeq(s, k + 1, k + Len(t)) = t

containsKeyword_FolderNotLowered(folderName, keyword, loc) ==
    Find(folderName, ToLowerString(keyword, loc))
containsKeyword(folderName, keyword, loc) ==
    Find(ToLowerString(folderName, loc), ToLowerString(keyword, loc))

(***************************************************************************)
(* The working directory.                                                  *)
(***************************************************************************)
EntryNames == {<<"a">>, <<"A", "b">>, <<"c">>, <<"xE9">>}
Kinds == {"dir", "file"}

FileSystems ==
    UNION {[S -> Kinds] : S \in {T \in SUBSET EntryNames : Cardinality(T) <= MaxEntries}}

IsDirectory_Any(e, name) == TRUE
\* entry.is_directory()
IsDirectory(e, name) == e[name] = "dir"

Exists_DirectoriesOnly(e, path) == path \in DOMAIN e /\ e[path] = "dir"
\* fs::exists(newPath)
Exists(e, path) == path \in DOMAIN e

RenameEntry_KeepsOld(e, old, new) ==
    [p \in DOMAIN e \cup {new} |-> IF p = new THEN e[old] ELSE e[p]]
\* fs::rename(oldPath, newPath) when it returns normally
RenameEntry(e, old, new) ==
    [p \in (DOMAIN e \ {old}) \cup {new} |-> IF p = new THEN e[old] ELSE e[p]]

\* the orders in which fs::directory_iterator may yield the entries
Listings(e) ==
    {f \in [1..Cardinality(DOMAIN e) -> DOMAIN e] :
        \A x, y \in 1..Cardinality(DOMAIN e) : f[x] = f[y] => x = y}

\* lines 168-180: the entries of the listing that are pushed to matchedFolders
MatchLoop(e, listing, keyword, loc) ==
    SelectSeq(listing,
              LAMBDA p : IsDirectory(e, p) /\ containsKeyword(p, keyword, loc))

IsAmbiguous_MoreThanTwo(m) == Len(m) > 2
\* matchedFolders.size() > 1
IsAmbiguous(m) == Len(m) > 1

ShouldExecute_Inverted(cfg) == ~cfg.executeCommand
\* if (config.executeCommand)
ShouldExecute(cfg) == cfg.executeCommand

CommandSucceeded_OnlySpawnFailure(result) == result # 0 - 1
\* executeExternalCommand's return value: result == 0
CommandSucceeded(result) == result = 0

\* the statuses std::system may return
CommandStatuses == {0, 1, 2}

(***************************************************************************)
(* Argument lists.                                                         *)
(***************************************************************************)
\* the tokens the parser specification draws its argument lists from: the
\* options that fill the Config, an ordinary value (an unknown option where an
\* option is expected) and the empty string
Tokens == {OptK, OptN, OptC, OptV, <<"a">>, Empty}

\* every argument list of at most MaxArgs tokens
ArgLists == UNION {[1..n -> Tokens] : n \in 0..MaxArgs}

Keywords == {<<"a">>, <<"B">>, <<"xC9">>}
NewNames == {<<"a">>, <<"c">>, <<"n", "b">>}
Commands == {<<"a">>, Empty}

\* the invocations of the run specification: every well-formed combination
\* of the values above, and one list per way the parser can refuse
RunArgLists ==
    {<<OptK, k, OptN, n>> \o c \o v :
        k \in Keywords, n \in NewNames,
        c \in {Empty} \cup {<<OptC, x>> : x \in Commands},
        v \in {Empty, <<OptV>>}}
    \cup {<<OptKeyword, <<"a">>, OptNewName, <<"c">>, OptCommand, <<"a">>, OptVerbose>>,
          <<OptH>>, <<OptHelp>>, <<OptK, <<"a">>, OptN, <<"c">>, OptC, <<"a">>, OptH>>,
          <<OptK, <<"a">>, OptN>>, <<OptK, <<"a">>, OptN, <<"c">>, OptC>>,
          <<OptK, <<"a">>, <<"c">>>>, <<OptK, <<"a">>>>, Empty}

(***************************************************************************)
(* main.                                                                   *)
(***************************************************************************)
\* the process after setConsoleEncoding() and `Config config;`
Start(fileSystems) ==
    /\ pc = "start"
    /\ locale \in Locales
    /\ entries \in fileSystems
    /\ entries0 = entries
    /\ argc = 1
    /\ arg = NoArg
    /\ argIndex = 0
    /\ parsed = FALSE
    /\ usageShown = FALSE
    /\ config = DefaultConfig
    /\ listed = FALSE
    /\ matchedFolders = <<>>
    /\ renames = 0
    /\ commandRuns = 0
    /\ cmdStatus = NoStatus
    /\ outcome = "None"
    /\ exitCode = NoExit

Init == Start(FileSystems)

\* lines 149-152: parseArguments(argc, argv, config), and `return 1` when it
\* returns false
ParseArguments(argLists) ==
    /\ pc = "start"
    /\ \E argv \in argLists :
          LET r == parseArguments(argv, config) IN
          /\ argc' = Len(argv) + 1
          /\ arg' = r.arg
          /\ argIndex' = r.argIndex
          /\ parsed' = r.ok
          /\ usageShown' = r.usage
          /\ config' = r.config
          /\ outcome' = r.outcome
          /\ pc' = IF r.ok THEN "scan" ELSE "exit"
          /\ exitCode' = IF r.ok THEN NoExit ELSE 1
    /\ UNCHANGED <<locale, entries, entries0, listed, matchedFolders, renames,
                   commandRuns, cmdStatus>>

\* lines 165-180: the directory listing and the filter
Scan ==
    /\ pc = "scan"
    /\ \E listing \in Listings(entries) :
          matchedFolders' = MatchLoop(entries, listing, config.keyword, locale)
    /\ listed' = TRUE
    /\ pc' = "decide"
    /\ UNCHANGED <<locale, argc, arg, argIndex, parsed, usageShown, config, entries,
                   entries0, renames, commandRuns, cmdStatus, outcome, exitCode>>

\* lines 168, 216-218: fs::directory_iterator throws (the directory cannot be read)
ScanError ==
    /\ pc = "scan"
    /\ outcome' = "ScanError"
    /\ pc' = "exit"
    /\ exitCode' = 1
    /\ UNCHANGED <<locale, argc, arg, argIndex, parsed, usageShown, config, entries,
                   entries0, listed, matchedFolders, renames, commandRuns, cmdStatus>>

\* lines 182-185
NoMatch ==
    /\ pc = "decide"
    /\ Len(matchedFolders) = 0
    /\ outcome' = "NoMatch"
    /\ pc' = "exit"
    /\ exitCode' = 0
    /\ UNCHANGED <<locale, argc, arg, argIndex, parsed, usageShown, config, entries,
                   entries0, listed, matchedFolders, renames, commandRuns, cmdStatus>>

\* lines 187-192
AmbiguousMatch ==
    /\ pc = "decide"
    /\ Len(matchedFolders) # 0
    /\ IsAmbiguous(matchedFolders)
    /\ outcome' = "AmbiguousMatch"
    /\ pc' = "exit"
    /\ exitCode' = 1
    /\ UNCHANGED <<locale, argc, arg, argIndex, parsed, usageShown, config, entries,
                   entries0, listed, matchedFolders, renames, commandRuns, cmdStatus>>

\* lines 195-202
TargetExists ==
    /\ pc = "decide"
    /\ Len(matchedFolders) # 0
    /\ ~IsAmbiguous(matchedFolders)
    /\ Exists(entries, config.newName)
    /\ outcome' = "TargetExists"
    /\ pc' = "exit"
    /\ exitCode' = 1
    /\ UNCHANGED <<locale, argc, arg, argIndex, parsed, usageShown, config, entries,
                   entries0, listed, matchedFolders, renames, commandRuns, cmdStatus>>

\* lines 204-206: fs::rename(oldPath, newPath) returns normally
Rename ==
    /\ pc = "decide"
    /\ Len(matchedFolders) # 0
    /\ ~IsAmbiguous(matchedFolders)
    /\ ~Exists(entries, config.newName)
    /\ entries' = RenameEntry(entries, matchedFolders[1], config.newName)
    /\ renames' = renames + 1
    /\ outcome' = "Renamed"
    /\ pc' = "renamed"
    /\ UNCHANGED <<locale, argc, arg, argIndex, parsed, usageShown, config, entries0,
                   listed, matchedFolders, commandRuns, cmdStatus, exitCode>>

\* lines 199, 205, 216-218: fs::exists or fs::rename throws filesystem_error
RenameError ==
    /\ pc = "decide"
    /\ Len(matchedFolders) # 0
    /\ ~IsAmbiguous(matchedFolders)
    /\ outcome' = "RenameFailed"
    /\ pc' = "exit"
    /\ exitCode' = 1
    /\ UNCHANGED <<locale, argc, arg, argIndex, parsed, usageShown, config, entries,
                   entries0, listed, matchedFolders, renames, commandRuns, cmdStatus>>

\* lines 209-214 with executeExternalCommand (123-140), then line 228
ExecuteCommand ==
    /\ pc = "renamed"
    /\ ShouldExecute(config)
    /\ \E result \in CommandStatuses :
          /\ cmdStatus' = result
          /\ outcome' = IF CommandSucceeded(result) THEN "Success" ELSE "CommandFailed"
          /\ exitCode' = IF CommandSucceeded(result) THEN 0 ELSE 1
    /\ commandRuns' = commandRuns + 1
    /\ pc' = "exit"
    /\ UNCHANGED <<locale, argc, arg, argIndex, parsed, usageShown, config, entries,
                   entries0, listed, matchedFolders, renames>>

\* line 209 false, then line 228: no follow-up command
Finish ==
    /\ pc = "renamed"
    /\ ~ShouldExecute(config)
    /\ outcome' = "Success"
    /\ pc' = "exit"
    /\ exitCode' = 0
    /\ UNCHANGED <<locale, argc, arg, argIndex, parsed, usageShown, config, entries,
                   entries0, listed, matchedFolders, renames, commandRuns, cmdStatus>>

ParseRun == ParseArguments(RunArgLists)

Next ==
    \/ ParseRun
    \/ Scan
    \/ ScanError
    \/ NoMatch
    \/ AmbiguousMatch
    \/ TargetExists
    \/ Rename
    \/ RenameError
    \/ ExecuteCommand
    \/ Finish

\* one run of the program over every working directory and every locale
Spec == Init /\ [][Next]_vars

\* the parser alone, over every argument list of at most MaxArgs tokens
InitParse == Start({<<>>}) /\ locale = "C"

NextParse == ParseArguments(ArgLists)

SpecParse == InitParse /\ [][NextParse]_vars

(***************************************************************************)
(* Vocabulary of the properties.                                           *)
(***************************************************************************)
OptionTokens ==
    {OptH, OptHelp, OptV, OptVerbose, OptK, OptKeyword, OptN, OptNewName,
     OptC, OptCommand}

RequiresValue(a) == IsKeywordOpt(a) \/ IsNewNameOpt(a) \/ IsCommandOpt(a)

ParseFailures ==
    {"HelpRequested", "MissingKeyword", "MissingNewName", "MissingCommand",
     "UnknownOption", "RequiredMissing"}

\* the set of paths in matchedFolders
MatchSet == {matchedFolders[j] : j \in 1..Len(matchedFolders)}

\* ASCII-range lowering and raising of one character, of a string
AsciiLower(c) ==
    IF c = "A" THEN "a" ELSE IF c = "B" THEN "b" ELSE IF c = "C" THEN "c"
    ELSE IF c = "H" THEN "h" ELSE IF c = "K" THEN "k" ELSE IF c = "N" THEN "n"
    ELSE IF c = "V" THEN "v" ELSE c
AsciiUpper(c) ==
    IF c = "a" THEN "A" ELSE IF c = "b" THEN "B" ELSE IF c = "c" THEN "C"
    ELSE IF c = "h" THEN "H" ELSE IF c = "k" THEN "K" ELSE IF c = "n" THEN "N"
    ELSE IF c = "v" THEN "V" ELSE c
LowerCased(s) == [j \in 1..Len(s) |-> AsciiLower(s[j])]
UpperCased(s) == [j \in 1..Len(s) |-> AsciiUpper(s[j])]
IsAscii(s) == \A j \in 1..Len(s) : s[j] \notin HighBytes

\* name contains keyword as a substring after ASCII lowering of both
CaseInsensitiveSubstring(name, keyword) ==
    \E k \in 0..(Len(name) - Len(keyword)) :
        SubSeq(LowerCased(name), k + 1, k + Len(keyword)) = LowerCased(keyword)

\* the directories a scan of directory e with the run's keyword finds
ScanOf(e) ==
    {p \in DOMAIN e : e[p] = "dir" /\ containsKeyword(p, config.keyword, locale)}

\* the directories a scan of the directory as it was at the start finds
ScanOfStart == ScanOf(entries0)

\* the Config written back as an argument list
Serialize(cfg) ==
    <<OptK, cfg.keyword, OptN, cfg.newName>>
    \o (IF cfg.executeCommand THEN <<OptC, cfg.command>> ELSE <<>>)
    \o (IF cfg.verbose THEN <<OptV>> ELSE <<>>)

(***************************************************************************)
(* Properties.                                                             *)
(***************************************************************************)

\* C1: when the Config is valid and the scan yields more than one matching
\* directory, the run ends with exit code 1 (ambiguous match), no rename is
\* attempted, the directory is as it was before the run and the follow-up
\* command is not executed, configured or not.
C1_AmbiguousNoRename ==
    (parsed /\ listed /\ Len(matchedFolders) > 1) =>
        /\ pc \in {"decide", "exit"}
        /\ renames = 0
        /\ commandRuns = 0
        /\ entries = entries0
        /\ pc = "exit" => (exitCode = 1 /\ outcome = "AmbiguousMatch")

C1_Witness ==
    /\ pc = "exit"
    /\ Len(matchedFolders) > 1
    /\ config.executeCommand
    /\ outcome = "AmbiguousMatch"

\* C2: with exactly one matching directory, when an entry already exists at
\* newName before the rename (the matched directory itself included), the run
\* ends with exit code 1, the matched directory keeps its name, no rename is
\* performed and the follow-up command is not executed.
C2_TargetExistsNoRename ==
    (listed /\ Len(matchedFolders) = 1 /\ config.newName \in DOMAIN entries0) =>
        /\ pc \in {"decide", "exit"}
        /\ renames = 0
        /\ commandRuns = 0
        /\ entries = entries0
        /\ matchedFolders[1] \in DOMAIN entries
        /\ pc = "exit" => (exitCode = 1 /\ outcome \in {"TargetExists", "RenameFailed"})

C2_Witness ==
    /\ pc = "exit"
    /\ Len(matchedFolders) = 1
    /\ config.newName = matchedFolders[1]
    /\ config.executeCommand
    /\ outcome = "TargetExists"

\* C3: with exactly one matching directory D, no entry at newName, a rename
\* that succeeds and no command or a command returning 0: after the run D is
\* gone under its old name, newName is in its place, every other entry is
\* unchanged and the exit code is 0.
C3_RenamedInPlace ==
    ( /\ pc = "exit"
      /\ Len(matchedFolders) = 1
      /\ config.newName \notin DOMAIN entries0
      /\ renames = 1
      /\ (~config.executeCommand \/ cmdStatus = 0) ) =>
        /\ matchedFolders[1] \notin DOMAIN entries
        /\ DOMAIN entries = (DOMAIN entries0 \ {matchedFolders[1]}) \cup {config.newName}
        /\ entries[config.newName] = entries0[matchedFolders[1]]
        /\ \A p \in DOMAIN entries0 \ {matchedFolders[1]} : entries[p] = entries0[p]
        /\ exitCode = 0

C3_Witness ==
    /\ pc = "exit"
    /\ renames = 1
    /\ exitCode = 0
    /\ commandRuns = 1
    /\ Cardinality(DOMAIN entries0) > 1
    /\ config.newName \notin DOMAIN entries0

\* C4: the follow-up command is executed at most once, only when
\* executeCommand is true and a rename has succeeded before it in the same
\* run; never after a parse error, a help request, no match, an ambiguous
\* match, an existing target or a filesystem error.
C4_CommandOnlyAfterRename ==
    /\ commandRuns <= 1
    /\ commandRuns = 1 => (parsed /\ config.executeCommand /\ renames = 1)
    /\ outcome \in ParseFailures
                   \cup {"ScanError", "NoMatch", "AmbiguousMatch", "TargetExists",
                         "RenameFailed"}
          => commandRuns = 0

C4_Witness ==
    /\ pc = "exit"
    /\ commandRuns = 1
    /\ cmdStatus = 0
    /\ renames = 1

\* C5: when the rename succeeded and the follow-up command returns a non-zero
\* status, the exit code is 1 whatever the status, and the rename stays: the
\* old name is absent, the new name present, and a scan with the same keyword
\* no longer finds the old directory.
C5_CommandFailureKeepsRename ==
    (pc = "exit" /\ renames = 1 /\ commandRuns = 1 /\ cmdStatus # 0) =>
        /\ exitCode = 1
        /\ matchedFolders[1] \notin DOMAIN entries
        /\ config.newName \in DOMAIN entries
        /\ matchedFolders[1] \notin ScanOf(entries)

C5_Witness ==
    /\ pc = "exit"
    /\ renames = 1
    /\ cmdStatus = 2
    /\ exitCode = 1
    /\ outcome = "CommandFailed"

\* C6: when the parser reaches -h or --help it prints usage, and the process
\* exits with code 0 without listing the directory, renaming or running the
\* follow-up command.
C6_HelpExitsZero ==
    outcome = "HelpRequested" =>
        /\ usageShown
        /\ exitCode = 0
        /\ ~listed
        /\ renames = 0
        /\ commandRuns = 0

\* C7: with a valid Config, when the scan finds that no immediate
\* subdirectory matches the keyword, the outcome is NoMatch with exit code 0,
\* nothing is renamed, the directory is unchanged and the follow-up command
\* is not executed, configured or not.
C7_NoMatchNoEffect ==
    (parsed /\ listed /\ ScanOfStart = {}) =>
        /\ pc \in {"decide", "exit"}
        /\ renames = 0
        /\ commandRuns = 0
        /\ entries = entries0
        /\ pc = "exit" => (outcome = "NoMatch" /\ exitCode = 0)

C7_Witness ==
    /\ pc = "exit"
    /\ outcome = "NoMatch"
    /\ exitCode = 0
    /\ config.executeCommand
    /\ \E p \in DOMAIN entries0 :
          entries0[p] = "file" /\ containsKeyword(p, config.keyword, locale)

\* C8 as stated: an option that requires a value and has no value token after
\* it ends the parse in an error and no Config; in particular an option token
\* is never accepted as the value of the option before it, so no Config the
\* parser produces holds an option token as a value.
C8_OptionNeverAValue ==
    /\ (pc # "start" /\ RequiresValue(arg) /\ argIndex + 1 >= argc) => ~parsed
    /\ parsed =>
          /\ config.keyword \notin OptionTokens
          /\ config.newName \notin OptionTokens
          /\ config.command \notin OptionTokens

\* C8, amended: when the parser reaches, as the last token of the list, an
\* option that requires a value, the parse ends in the error for that missing
\* parameter with exit code 1 and no Config; when a token follows the option,
\* whatever it is, the parse does not report a missing value there.
C8_MissingLastValue ==
    /\ (pc # "start" /\ RequiresValue(arg) /\ argIndex + 1 >= argc) =>
          /\ ~parsed
          /\ pc = "exit"
          /\ exitCode = 1
          /\ IsKeywordOpt(arg) => outcome = "MissingKeyword"
          /\ IsNewNameOpt(arg) => outcome = "MissingNewName"
          /\ IsCommandOpt(arg) => outcome = "MissingCommand"
    /\ (pc # "start" /\ RequiresValue(arg) /\ argIndex + 1 < argc) =>
          /\ argIndex + 2 = argc
          /\ outcome \in {"None", "RequiredMissing"}

C8_Witness ==
    /\ pc = "exit"
    /\ outcome = "MissingNewName"
    /\ config.keyword = OptN
    /\ argIndex = 3
    /\ argc = 4

\* C9 as stated: for every set of entries and every keyword the match set is
\* exactly the directories whose name contains the keyword after ASCII
\* lowering of both.
C9_ScanIsAsciiMatch ==
    listed =>
        MatchSet = {p \in DOMAIN entries0 :
                       entries0[p] = "dir" /\ CaseInsensitiveSubstring(p, config.keyword)}

\* C9, amended: the match set holds only directories of the listing, each
\* once; for a keyword and an entry name made of ASCII characters only, the
\* entry is in the match set exactly when it is a directory whose name
\* contains the keyword after ASCII lowering of both, and the test gives the
\* same answer when name and keyword are both upper-cased or both lower-cased.
C9_ScanIsAsciiMatchOnAscii ==
    listed =>
        /\ MatchSet \subseteq {p \in DOMAIN entries0 : entries0[p] = "dir"}
        /\ Cardinality(MatchSet) = Len(matchedFolders)
        /\ IsAscii(config.keyword) =>
              \A p \in DOMAIN entries0 :
                  IsAscii(p) =>
                      /\ p \in MatchSet <=>
                            (entries0[p] = "dir"
                             /\ CaseInsensitiveSubstring(p, config.keyword))
                      /\ containsKeyword(UpperCased(p), UpperCased(config.keyword), locale)
                            = containsKeyword(p, config.keyword, locale)
                      /\ containsKeyword(LowerCased(p), LowerCased(config.keyword), locale)
                            = containsKeyword(p, config.keyword, locale)

C9_Witness ==
    /\ listed
    /\ config.keyword = <<"B">>
    /\ MatchSet = {<<"A", "b">>}
    /\ \E p \in DOMAIN entries0 : entries0[p] = "dir" /\ p \notin MatchSet

\* C10: every Config the parser accepts, written back as an argument list
\* (-k keyword, -n newName, -c command iff executeCommand, -v iff verbose)
\* and parsed again, is accepted and gives a Config equal in all five fields.
C10_RoundTrip ==
    parsed =>
        LET r == parseArguments(Serialize(config), DefaultConfig) IN
        /\ r.ok
        /\ r.config.keyword = config.keyword
        /\ r.config.newName = config.newName
        /\ r.config.command = config.command
        /\ r.config.executeCommand = config.executeCommand
        /\ r.config.verbose = config.verbose

C10_Witness ==
    /\ parsed
    /\ config.executeCommand
    /\ config.command = Empty
    /\ config.keyword = OptK
    /\ config.newName = <<"a">>

=============================================================================
